---- MODULE Spec2Model ----
(***************************************************************************)
(* Capture-and-optimize pipeline of dorkerplus.                            *)
(*                                                                         *)
(* Two builds live in the repository:                                      *)
(*   "dorkerplus"    : src/main.go + the Screenshotter of                  *)
(*                     src/unnamed/part_000 (image artifacts, optimizer    *)
(*                     optimizeImageSize run by the orchestrator);         *)
(*   "dorkergoodnew" : src/dorkergoodnew/main.go (CapturePDF with the      *)
(*                     in-chain optimizer compressImage).                  *)
(* The model is a step machine: one action per strategy attempt, per       *)
(* optimizer step and per orchestrator step.  The filesystem is a function *)
(* from paths to files; every system call and external tool whose outcome  *)
(* the code cannot control is a nondeterministic choice.                   *)
(***************************************************************************)
EXTENDS Integers, Sequences, FiniteSets, TLC

\* ------------------------------------------------------------------ bounds
MaxTargets == 2      \* results in a batch
MaxOver == 1         \* tool outputs range up to budget + MaxOver bytes

\* --------------------------------------------------------------- constants
rootMaxSizeKB == 120            \* optimizeImageSize(filePath, 120)
dgMaxSizeKB == 100              \* compressImage(imagePath, 100)
StatusOK == 200

VARIABLES
    build,      \* which program runs: "dorkerplus" or "dorkergoodnew"
    pdfMode,    \* the -pdf flag
    avail,      \* executables exec.LookPath finds (fixed during a run)
    nResults,   \* len(results)
    i,          \* index of the target the for loop is at (1-based)
    pc,         \* position of the single thread of control
    fs,         \* filesystem: path -> file
    err,        \* value returned by Capture / CapturePDF for the target
    log,        \* strategies executed for the current target, in order
    http,       \* outcome of the HTTP fetch for the current target
    category,   \* category the Synthetic Artifact Generator was asked for
    tempCreated,\* CapturePDF created its temporary PDF for this target
    winner,     \* rasterizer on whose behalf CapturePDF returned nil
    opt,        \* bookkeeping of the current optimizer call
    title,      \* title passed to createErrorImage for the current target
    reported,   \* size printed as "Screenshot saved" for the last target
    cancelled,  \* the context passed to the orchestrator is cancelled
    batch,      \* targets started and captures failed so far in the batch
    args,       \* input of the text function under study
    result      \* its output

vars == <<build, pdfMode, avail, nResults, i, pc, fs, err, log, http,
          category, tempCreated, winner, opt, title, reported, cancelled,
          batch, args, result>>

\* ------------------------------------------------------------------- files
\* the title createErrorImage / createErrorFile is called with
Title(text, status) == [text |-> text, status |-> status]
NoTitle == Title("none", 0)
\* a file: what made it, its size, and the words a reader finds in it (the
\* images this program draws are coloured rectangles and hold none)
NoFile == [kind |-> "none", size |-> 0, text |-> NoTitle]
File(k, n) == [kind |-> k, size |-> n, text |-> NoTitle]
Exists(f) == f.kind # "none"
\* getFileSize with its error dropped
SizeAt(f) == IF Exists(f) THEN f.size ELSE 0

Names == {"out", "out.png", "out.err", "tmp.jpg", "tmp2.jpg", "temp.pdf",
          "pdfimage", "results"}
Paths == (0..(MaxTargets + 1)) \X Names

Nil == "nil"

\* ------------------------------------------------------------ environment
Renderers == {"wkhtmltoimage", "google-chrome", "chromium"}
RootRasterizers == {"pdftoppm", "convert", "pdfimages"}
DgRasterizers == {"pdftoppm", "convert", "gs"}

\* executables the selected program and mode look up
LookedUp(b, pdf) ==
    IF b = "dorkergoodnew" THEN DgRasterizers
    ELSE IF pdf THEN RootRasterizers
    ELSE Renderers \cup {"convert"}

ExitCodes == {"ok", "fail"}     \* cmd.Run() == nil / != nil
SysOutcomes == {"ok", "fail"}   \* a system call whose error the code sees

maxSizeBytes == (IF build = "dorkergoodnew" THEN dgMaxSizeKB
                 ELSE rootMaxSizeKB) * 1024
\* sizes an external tool may leave behind: empty, just under, at, over
OutSizes == {0} \cup ((maxSizeBytes - 1)..(maxSizeBytes + MaxOver))
ToolWrites(kind) == {NoFile} \cup {File(kind, n) : n \in OutSizes}
\* what convert may leave at the candidate path: after a failed run nothing
\* or a partial file, whose size no code reads
CandidateWrites(exit) ==
    IF exit = "ok" THEN ToolWrites("candidate")
    ELSE {NoFile, File("partial", 0)}

\* the 1024x768 flat-colour placeholders encode to a few tens of KB
placeholderBytes == 20 * 1024

Statuses == {200, 204, 404}
CTypeWords == {"pdf", "html"}   \* substrings the Content-Type may contain
NoHttp == [result |-> "none", status |-> 0, ctype |-> {}]
HttpOutcomes ==
    {[result |-> r, status |-> 0, ctype |-> {}] :
        r \in {"requestFailed", "connectionFailed"}}
    \cup [result : {"response"}, status : Statuses, ctype : SUBSET CTypeWords]

\* no "Screenshot saved" line was printed for the target
NotReported == -1

\* fmt.Sprintf("HTTP %d", resp.StatusCode), or the fixed text of a failed
\* request (whenFailed: "Connection failed" or "Download failed")
ErrorTitle(h, whenFailed) ==
    IF h.result = "requestFailed" THEN Title("Request failed", 0)
    ELSE IF h.result = "connectionFailed" THEN Title(whenFailed, 0)
    ELSE Title("HTTP", h.status)

\* CapturePDF never reads the Content-Type
PdfHttpOutcomes == {h \in HttpOutcomes : h.ctype = {}}

NoOpt == [entry |-> NoFile, runs |-> 0, fit |-> FALSE, accepted |-> FALSE,
          cand |-> "none", ret |-> "none"]

\* ------------------------------------------------------------------- paths
\* filePath := filepath.Join(outputDir, filename+".png")
OutPath(t) == <<t, "out">>
\* dorkergoodnew: imagePath := outputPath + ".png"
ImagePath(t) == <<t, "out.png">>
ErrPath(t) == <<t, "out.err">>
\* tempDir/temp.pdf is one path for the whole batch; dorkergoodnew uses
\* temp_<base(url)>.pdf
TempPDF(t) == IF build = "dorkergoodnew" THEN <<t, "temp.pdf">>
              ELSE <<0, "temp.pdf">>
\* filepath.Dir(outputPath)/.pdfimage-000.png
FirstImage == <<0, "pdfimage">>
\* the -o output file of main
ResultsPath == <<0, "results">>
\* the file the optimizer works on and its candidates
Artifact(t) == IF build = "dorkergoodnew" THEN ImagePath(t) ELSE OutPath(t)
Candidate(t, n) == <<t, n>>

\* ------------------------------------------------------ filesystem helpers
\* what a tool run leaves at path p: w = NoFile means it wrote nothing
WriteFile(f, p, w) == IF Exists(w) THEN [f EXCEPT ![p] = w] ELSE f
\* os.Remove (its error is ignored at every call; the directory the program
\* has just written to is taken to stay writable)
Remove(f, p) == [f EXCEPT ![p] = NoFile]
\* os.Rename: the destination is replaced, the source disappears
Rename(f, from, to, outcome) ==
    IF outcome = "ok" /\ Exists(f[from])
    THEN [f EXCEPT ![to] = f[from], ![from] = NoFile]
    ELSE f

\* mutant: the availability probe is skipped
LookPath_skipped(tool) == TRUE
\* exec.LookPath(tool) succeeded
LookPath(tool) == tool \in avail

\* saveImage: os.Create then jpeg.Encode
SaveOutcomes == {"ok", "createFailed", "encodeFailed"}
saveImage(f, p, kind, sv) ==
    CASE sv = "ok" -> [f EXCEPT ![p] = File(kind, placeholderBytes)]
      [] sv = "createFailed" -> f
      [] sv = "encodeFailed" -> [f EXCEPT ![p] = File("partial", 0)]
\* mutant: a failed save is not reported
saveImageErr_silent(sv) == Nil
saveImageErr(sv) ==
    CASE sv = "ok" -> Nil
      [] sv = "createFailed" -> "failed to create file"
      [] sv = "encodeFailed" -> "failed to encode JPEG"
\* createErrorImage fills a background, a header band and a detail band and
\* saves the image: neither title nor detail is drawn
createErrorImage(f, p, ttl, sv) == saveImage(f, p, "error", sv)

\* mutant: the html test comes before the pdf test
PageRenderCategory_htmlFirst(h) ==
    IF h.result # "response" THEN "error"
    ELSE IF h.status = StatusOK
         THEN IF "html" \in h.ctype THEN "html"
              ELSE IF "pdf" \in h.ctype THEN "pdf"
              ELSE "success"
         ELSE "error"
\* captureWithPageRender's choice of visualization
PageRenderCategory(h) ==
    IF h.result # "response" THEN "error"
    ELSE IF h.status = StatusOK
         THEN IF "pdf" \in h.ctype THEN "pdf"
              ELSE IF "html" \in h.ctype THEN "html"
              ELSE "success"
         ELSE "error"

\* -------------------------------------------------------------------- Init
Init ==
    /\ build \in {"dorkerplus", "dorkergoodnew"}
    /\ pdfMode \in BOOLEAN
    /\ build = "dorkergoodnew" => pdfMode
    /\ avail \in SUBSET LookedUp(build, pdfMode)
    /\ nResults \in 1..MaxTargets
    /\ i = 1
    /\ pc = "loop"
    /\ fs = [p \in Paths |-> NoFile]
    /\ err = Nil
    /\ log = <<>>
    /\ http = NoHttp
    /\ category = "none"
    /\ tempCreated = FALSE
    /\ winner = "none"
    /\ opt = NoOpt
    /\ title = NoTitle
    /\ reported = NotReported
    /\ cancelled = FALSE
    /\ batch = [started |-> <<>>, failed |-> 0]
    /\ args = <<>>
    /\ result = <<>>

ghosts == <<http, category, title, tempCreated, winner, opt>>
config == <<build, pdfMode, avail, nResults, cancelled, args, result>>

\* ------------------------------------------------------------ orchestrator
\* filePath is built from the target's own URL, and every other file of a
\* target from filePath: once the loop moves on, no step names the files of
\* target t again, so they leave the model's view of the filesystem (the
\* temporary files shared by all targets stay)
OutOfView(f, t) == [p \in Paths |-> IF p[1] = t THEN NoFile ELSE f[p]]

\* mutant: the printed size is capped at the budget
ReportedSize_capped(f, p) ==
    IF SizeAt(f[p]) > maxSizeBytes THEN maxSizeBytes ELSE SizeAt(f[p])
\* size, _ := getFileSize(filePath); "Screenshot saved: %s (%.1f KB)"
ReportedSize(f, p) == SizeAt(f[p])

\* the loop body's locals go out of scope at the end of an iteration
Forget ==
    /\ err' = Nil
    /\ log' = <<>>
    /\ http' = NoHttp
    /\ category' = "none"
    /\ tempCreated' = FALSE
    /\ winner' = "none"
    /\ opt' = NoOpt
    /\ title' = NoTitle

\* for i, result := range results { ... Capture / CapturePDF
StartTarget ==
    /\ pc = "loop"
    /\ i <= nResults
    /\ pc' = IF pdfMode THEN "download" ELSE "wkhtmltoimage"
    /\ batch' = [batch EXCEPT !.started = Append(@, i)]
    /\ reported' = NotReported
    /\ UNCHANGED <<config, i, fs, err, log, ghosts>>

\* the range loop is exhausted
EndBatch ==
    /\ pc = "loop"
    /\ i > nResults
    /\ pc' = "done"
    /\ UNCHANGED <<config, batch, reported, i, fs, err, log, ghosts>>

\* mutant: a failed capture ends the batch
OnCaptureError_return == "done"
\* `continue` after a failed capture: on to the next target
OnCaptureError == "loop"

\* if err := screenshotter.Capture(...); err != nil { ...; continue }
\* otherwise the optimizer is called (dorkerplus) or the size is printed
AfterCapture ==
    /\ pc = "captured"
    /\ IF err # Nil
       THEN i' = i + 1 /\ pc' = OnCaptureError
       ELSE IF build = "dorkergoodnew"
       THEN i' = i + 1 /\ pc' = "loop"
       ELSE i' = i /\ pc' = "opt_enter"
    /\ IF pc' = "loop" THEN Forget ELSE UNCHANGED <<err, log, ghosts>>
    \* dorkergoodnew prints the size of filePath+".pdf", a file nobody
    \* writes; dorkerplus prints nothing for a failed capture
    /\ reported' = IF err = Nil /\ build = "dorkergoodnew" THEN 0
                   ELSE IF err # Nil THEN NotReported
                   ELSE reported
    /\ batch' = [batch EXCEPT !.failed = IF err # Nil THEN @ + 1 ELSE @]
    /\ fs' = IF pc' = "loop" THEN OutOfView(fs, i) ELSE fs
    /\ UNCHANGED config

\* optimizeImageSize returned: its error is only printed
AfterOptimize ==
    /\ pc = "optimized"
    /\ i' = i + 1
    /\ pc' = "loop"
    /\ Forget
    /\ reported' = ReportedSize(fs, OutPath(i))
    /\ fs' = OutOfView(fs, i)
    /\ UNCHANGED <<config, batch>>

\* ----------------------------------------------------------------- Capture
\* one renderer strategy of Capture: probe, run, return nil on exit 0
TryRenderer(tool, next) ==
    /\ pc = tool
    /\ IF ~LookPath(tool)
       THEN pc' = next /\ UNCHANGED <<fs, err, log>>
       ELSE \E exit \in ExitCodes, w \in ToolWrites("rendered") :
              /\ fs' = WriteFile(fs, OutPath(i), w)
              /\ log' = Append(log, [name |-> tool, ok |-> exit = "ok"])
              /\ IF exit = "ok"
                 THEN pc' = "captured" /\ err' = Nil
                 ELSE pc' = next /\ UNCHANGED err
    /\ UNCHANGED <<config, batch, reported, i, ghosts>>

captureWithWkhtmltoimage == TryRenderer("wkhtmltoimage", "google-chrome")
captureWithChrome == TryRenderer("google-chrome", "chromium")
captureWithChromium == TryRenderer("chromium", "pageRender")

captureWithPageRender ==
    /\ pc = "pageRender"
    /\ \E h \in HttpOutcomes, sv \in SaveOutcomes :
         /\ http' = h
         /\ category' = PageRenderCategory(h)
         /\ title' = IF PageRenderCategory(h) = "error"
                     THEN ErrorTitle(h, "Connection failed")
                     ELSE NoTitle
         /\ fs' = IF PageRenderCategory(h) = "error"
                  THEN createErrorImage(fs, OutPath(i),
                                        ErrorTitle(h, "Connection failed"), sv)
                  ELSE saveImage(fs, OutPath(i), PageRenderCategory(h), sv)
         /\ err' = saveImageErr(sv)
         /\ log' = Append(log, [name |-> "pageRender", ok |-> sv = "ok"])
    /\ pc' = "captured"
    /\ UNCHANGED <<config, batch, reported, i, tempCreated, winner, opt>>

\* -------------------------------------------------------------- CapturePDF
MaxBody == 1                    \* length of a response body, in bytes
\* io.LimitReader(resp.Body, 10*1024*1024): the one byte ceiling of the
\* repository, applied by capturePageContent and by no other fetch
bodyCeiling == 10 * 1024 * 1024
\* lengths of a response body: empty, short, and beyond the ceiling
BodyLens == {0, MaxBody, bodyCeiling + MaxBody}

\* the error artifact of a failed download: createErrorImage in dorkerplus,
\* createErrorFile (os.WriteFile of outputPath+".err") in dorkergoodnew
\* (sv: written, not created, or created and left empty)
createErrorFile(f, p, ttl, sv) ==
    CASE sv = "ok" ->
           [f EXCEPT ![p] = [File("errortext", 1) EXCEPT !.text = ttl]]
      [] sv = "createFailed" -> f
      [] sv = "encodeFailed" -> [f EXCEPT ![p] = File("partial", 0)]
ErrorArtifact(f, t, ttl, sv) ==
    IF build = "dorkergoodnew"
    THEN createErrorFile(f, ErrPath(t), ttl, sv)
    ELSE createErrorImage(f, OutPath(t), ttl, sv)

\* CapturePDF up to `defer os.Remove(tempPDF)`: MkdirAll, the GET, the
\* status test, os.Create of the temporary PDF and io.Copy of the body
CapturePDF_download ==
    /\ pc = "download"
    /\ \E mk \in SysOutcomes, h \in PdfHttpOutcomes, sv \in SaveOutcomes,
          cr \in SysOutcomes, cp \in SysOutcomes, len \in BodyLens,
          got \in BodyLens :
         \* io.Copy wrote got of the body's len bytes; all of them unless
         \* it failed
         /\ IF cp = "ok" THEN got = len ELSE got < len
         /\ IF mk = "fail"
            THEN /\ err' = "failed to create temp directory"
                 /\ pc' = "captured"
                 /\ UNCHANGED <<fs, http, category, title, tempCreated>>
            ELSE IF h.result # "response" \/ h.status # StatusOK
            THEN /\ http' = h
                 /\ category' = "error"
                 /\ title' = ErrorTitle(h, "Download failed")
                 /\ fs' = ErrorArtifact(fs, i,
                                         ErrorTitle(h, "Download failed"), sv)
                 /\ err' = saveImageErr(sv)
                 /\ pc' = "captured"
                 /\ UNCHANGED tempCreated
            ELSE IF cr = "fail"
            THEN /\ http' = h
                 /\ err' = "failed to create temp PDF"
                 /\ pc' = "captured"
                 /\ UNCHANGED <<fs, category, title, tempCreated>>
            ELSE /\ http' = h
                 /\ tempCreated' = TRUE
                 /\ fs' = [fs EXCEPT ![TempPDF(i)] = File("download", got)]
                 /\ IF cp = "fail"
                    THEN err' = "failed to save temp PDF" /\ pc' = "captured"
                    ELSE err' = err
                         /\ pc' = IF build = "dorkergoodnew"
                                  THEN "dg_pdftoppm" ELSE "rasterize"
                 /\ UNCHANGED <<category, title>>
    /\ UNCHANGED <<config, batch, reported, i, log, winner, opt>>

\* the deferred os.Remove(tempPDF) runs when CapturePDF returns
CapturePDF_defer ==
    /\ pc = "defer"
    /\ fs' = Remove(fs, TempPDF(i))
    /\ pc' = "captured"
    /\ UNCHANGED <<config, batch, reported, i, err, log, ghosts>>

\* return s.capturePDFWithX(tempPDF, outputPath): the tool's exit status is
\* CapturePDF's result
ReturnRasterizer(tool, exit) ==
    /\ log' = Append(log, [name |-> tool, ok |-> exit = "ok"])
    /\ err' = IF exit = "ok" THEN Nil ELSE tool \o " failed"
    /\ winner' = IF exit = "ok" THEN tool ELSE "none"
    /\ pc' = "defer"

\* pdftoppm -png -singlefile writes <prefix>.png, which is outputPath
capturePDFWithPdftoppm ==
    /\ pc = "rasterize"
    /\ LookPath("pdftoppm")
    /\ \E exit \in ExitCodes, w \in ToolWrites("rendered") :
         /\ fs' = WriteFile(fs, OutPath(i), w)
         /\ ReturnRasterizer("pdftoppm", exit)
    /\ UNCHANGED <<config, batch, reported, i, http, category, title, tempCreated, opt>>

capturePDFWithImageMagick ==
    /\ pc = "rasterize"
    /\ ~LookPath("pdftoppm")
    /\ LookPath("convert")
    /\ \E exit \in ExitCodes, w \in ToolWrites("rendered") :
         /\ fs' = WriteFile(fs, OutPath(i), w)
         /\ ReturnRasterizer("convert", exit)
    /\ UNCHANGED <<config, batch, reported, i, http, category, title, tempCreated, opt>>

\* pdfimages extracts to .pdfimage-000.png, which is then moved
capturePDFWithPdfimages ==
    /\ pc = "rasterize"
    /\ ~LookPath("pdftoppm")
    /\ ~LookPath("convert")
    /\ LookPath("pdfimages")
    /\ \E exit \in ExitCodes, w \in ToolWrites("rendered"),
          rn \in SysOutcomes :
         LET f1 == WriteFile(fs, FirstImage, w)
             moved == exit = "ok" /\ Exists(f1[FirstImage]) /\ rn = "ok"
         IN  /\ fs' = IF exit = "ok"
                      THEN Rename(f1, FirstImage, OutPath(i), rn)
                      ELSE f1
             /\ log' = Append(log, [name |-> "pdfimages", ok |-> moved])
             /\ err' = IF moved THEN Nil
                       ELSE IF exit = "fail" THEN "pdfimages failed"
                       ELSE IF Exists(f1[FirstImage])
                            THEN "failed to move extracted image"
                            ELSE "no images extracted from PDF"
             /\ winner' = IF moved THEN "pdfimages" ELSE "none"
    /\ pc' = "defer"
    /\ UNCHANGED <<config, batch, reported, i, http, category, title, tempCreated, opt>>

\* no rasterizer on the path: createPDFVisualization
CapturePDF_fallback ==
    /\ pc = "rasterize"
    /\ ~LookPath("pdftoppm")
    /\ ~LookPath("convert")
    /\ ~LookPath("pdfimages")
    /\ \E sv \in SaveOutcomes :
         /\ fs' = saveImage(fs, OutPath(i), "pdf", sv)
         /\ err' = saveImageErr(sv)
         /\ log' = Append(log, [name |-> "placeholder", ok |-> sv = "ok"])
    /\ category' = "pdf"
    /\ pc' = "defer"
    /\ UNCHANGED <<config, batch, reported, i, http, title, tempCreated, winner, opt>>

\* --------------------------------------------------------------- optimizer
\* mutant: an artifact exactly at the budget is recompressed
AlreadySmallEnough_strict(size, max) == size < max
\* if size <= maxSizeBytes { return nil }
AlreadySmallEnough(size, max) == size <= max
\* mutant: any candidate replaces the artifact
AcceptCandidate_any(newSize, max) == TRUE
\* if err == nil && newSize < maxSizeBytes { replace }
AcceptCandidate(newSize, max) == newSize < max

\* The body of `if err := cmd.Run(); err == nil { ... }`: the filesystem
\* after one run of convert that exited with `exit` having written w at the
\* candidate path, and whether the candidate is to replace the artifact.
\* A rejected candidate is removed; after a failed run whatever convert
\* wrote stays.
AfterConvert(f, cand, exit, w) ==
    LET f1 == WriteFile(f, cand, w)
        take == /\ exit = "ok"
                /\ Exists(f1[cand])
                /\ AcceptCandidate(f1[cand].size, maxSizeBytes)
    IN  [take |-> take,
         fs |-> IF exit = "ok" /\ ~take THEN Remove(f1, cand) ELSE f1]

\* bookkeeping of one convert run
Ran(o, cand, exit, w, take) ==
    [o EXCEPT !.runs = @ + 1,
              !.cand = cand,
              !.fit = @ \/ (exit = "ok" /\ Exists(w) /\ w.size <= maxSizeBytes),
              !.accepted = take]

\* optimizeImageSize, lines 335-343: stat and the budget test
optimizeImageSize_enter ==
    /\ pc = "opt_enter"
    /\ LET f == fs[Artifact(i)]
       IN  IF ~Exists(f)
           THEN /\ pc' = "optimized"
                /\ opt' = [NoOpt EXCEPT !.entry = f, !.ret = "stat failed"]
           ELSE IF AlreadySmallEnough(f.size, maxSizeBytes)
           THEN /\ pc' = "optimized"
                /\ opt' = [NoOpt EXCEPT !.entry = f, !.ret = Nil]
           ELSE /\ pc' = "opt_convert"
                /\ opt' = [NoOpt EXCEPT !.entry = f, !.ret = "running"]
    /\ UNCHANGED <<config, batch, reported, i, fs, err, log, http, category, title, tempCreated,
                   winner>>

\* optimizeImageSize, lines 347-369: the single convert pass (no LookPath:
\* a missing executable makes cmd.Run fail without writing anything)
optimizeImageSize_convert ==
    /\ pc = "opt_convert"
    /\ \E exit \in ExitCodes :
       \E w \in CandidateWrites(exit) :
         /\ ~LookPath("convert") => (exit = "fail" /\ w = NoFile)
         /\ LET cand == Candidate(i, "tmp.jpg")
                r == AfterConvert(fs, cand, exit, w)
            IN  /\ fs' = r.fs
                /\ IF r.take
                   THEN /\ pc' = "opt_remove"
                        /\ opt' = Ran(opt, "tmp.jpg", exit, w, TRUE)
                   ELSE /\ pc' = "optimized"
                        /\ opt' = [Ran(opt, "tmp.jpg", exit, w, FALSE)
                                     EXCEPT !.ret = Nil]
    /\ UNCHANGED <<config, batch, reported, i, err, log, http, category, title, tempCreated, winner>>

\* os.Remove(filePath), error ignored
optimizeImageSize_remove ==
    /\ pc = "opt_remove"
    /\ fs' = Remove(fs, Artifact(i))
    /\ pc' = "opt_rename"
    /\ UNCHANGED <<config, batch, reported, i, err, log, ghosts>>

\* os.Rename(tempFile, filePath), error ignored; return nil
optimizeImageSize_rename ==
    /\ pc = "opt_rename"
    /\ \E rn \in SysOutcomes :
         fs' = Rename(fs, Candidate(i, opt.cand), Artifact(i), rn)
    /\ pc' = "optimized"
    /\ opt' = [opt EXCEPT !.ret = Nil]
    /\ UNCHANGED <<config, batch, reported, i, err, log, http, category, title, tempCreated, winner>>

\* ------------------------------------------- dorkergoodnew: CapturePDF chain
NextTool(tool) ==
    CASE tool = "pdftoppm" -> "dg_convert"
      [] tool = "convert" -> "dg_gs"
      [] tool = "gs" -> "dg_none"
\* the rasterizer whose output compressImage is working on
Caller == log[Len(log)].name

\* if LookPath(tool) ok { if cmd.Run() ok { if compressImage(...) ok {return}}}
TryRasterizer(tool) ==
    /\ pc = "dg_" \o tool
    /\ IF ~LookPath(tool)
       THEN pc' = NextTool(tool) /\ UNCHANGED <<fs, log>>
       ELSE \E exit \in ExitCodes, w \in ToolWrites("rendered") :
              /\ fs' = WriteFile(fs, ImagePath(i), w)
              /\ log' = Append(log, [name |-> tool, ok |-> exit = "ok"])
              /\ pc' = IF exit = "ok" THEN "ci_enter" ELSE NextTool(tool)
    /\ UNCHANGED <<config, batch, reported, i, err, ghosts>>

CapturePDF_pdftoppm == TryRasterizer("pdftoppm")
CapturePDF_convert == TryRasterizer("convert")
CapturePDF_gs == TryRasterizer("gs")

\* return fmt.Errorf("no PDF conversion tools available")
CapturePDF_noTool ==
    /\ pc = "dg_none"
    /\ err' = "no PDF conversion tools available"
    /\ pc' = "defer"
    /\ UNCHANGED <<config, batch, reported, i, fs, log, ghosts>>

\* compressImage returned nil inside CapturePDF: CapturePDF returns nil
CompressReturnsNil(o) ==
    /\ opt' = [o EXCEPT !.ret = Nil]
    /\ err' = Nil
    /\ winner' = Caller
    /\ pc' = "defer"

\* compressImage, lines 630-638
compressImage_enter ==
    /\ pc = "ci_enter"
    /\ LET f == fs[ImagePath(i)]
       IN  IF ~Exists(f)
           THEN /\ pc' = NextTool(Caller)
                /\ opt' = [NoOpt EXCEPT !.entry = f, !.ret = "stat failed"]
                /\ UNCHANGED <<err, winner>>
           ELSE IF AlreadySmallEnough(f.size, maxSizeBytes)
           THEN CompressReturnsNil([NoOpt EXCEPT !.entry = f])
           ELSE /\ pc' = "ci_pass1"
                /\ opt' = [NoOpt EXCEPT !.entry = f, !.ret = "running"]
                /\ UNCHANGED <<err, winner>>
    /\ UNCHANGED <<config, batch, reported, i, fs, log, http, category, title, tempCreated>>

\* one `if LookPath("convert") ok { ... }` block of compressImage
CompressPass(here, name, last) ==
    /\ pc = here
    /\ IF ~LookPath("convert")
       THEN IF last
            THEN CompressReturnsNil(opt) /\ UNCHANGED fs
            ELSE pc' = "ci_pass2" /\ UNCHANGED <<fs, err, winner, opt>>
       ELSE \E exit \in ExitCodes :
            \E w \in CandidateWrites(exit) :
              LET r == AfterConvert(fs, Candidate(i, name), exit, w)
                  o == Ran(opt, name, exit, w, r.take)
              IN  /\ fs' = r.fs
                  /\ IF r.take
                     THEN /\ pc' = "ci_remove"
                          /\ opt' = o
                          /\ UNCHANGED <<err, winner>>
                     ELSE IF last
                     THEN CompressReturnsNil(o)
                     ELSE /\ pc' = "ci_pass2"
                          /\ opt' = o
                          /\ UNCHANGED <<err, winner>>
    /\ UNCHANGED <<config, batch, reported, i, log, http, category, title, tempCreated>>

\* quality 50, resize 80%, candidate <image>.tmp.jpg
compressImage_pass1 == CompressPass("ci_pass1", "tmp.jpg", FALSE)
\* quality 30, resize 50%, candidate <image>.tmp2.jpg
compressImage_pass2 == CompressPass("ci_pass2", "tmp2.jpg", TRUE)

\* os.Remove(imagePath), error ignored
compressImage_remove ==
    /\ pc = "ci_remove"
    /\ fs' = Remove(fs, ImagePath(i))
    /\ pc' = "ci_rename"
    /\ UNCHANGED <<config, batch, reported, i, err, log, ghosts>>

\* os.Rename(tempFile, imagePath), error ignored; return nil
compressImage_rename ==
    /\ pc = "ci_rename"
    /\ \E rn \in SysOutcomes :
         fs' = Rename(fs, Candidate(i, opt.cand), ImagePath(i), rn)
    /\ CompressReturnsNil(opt)
    /\ UNCHANGED <<config, batch, reported, i, log, http, category, title, tempCreated>>

\* ------------------------------------------------------ after the batch
\* main: saveResults(results, *output) once the capture function returned;
\* os.Create may fail, and main then exits with status 1
main_saveResults ==
    /\ pc = "done"
    /\ \E sv \in SysOutcomes :
         /\ fs' = IF sv = "ok"
                  THEN [fs EXCEPT ![ResultsPath] = File("results", nResults)]
                  ELSE fs
         /\ pc' = IF sv = "ok" THEN "saved" ELSE "exit1"
    /\ UNCHANGED <<config, batch, reported, i, err, log, ghosts>>

\* ------------------------------------------------------------ cancellation
\* the caller of captureScreenshots / captureScreenshotsWithPDF cancels the
\* context while a target is being processed
Cancel ==
    /\ ~cancelled
    /\ pc \notin {"loop", "done", "saved", "exit1", "blocked"}
    /\ cancelled' = TRUE
    /\ UNCHANGED <<build, pdfMode, avail, nResults, args, result, batch,
                   reported, i, pc, fs, err, log, ghosts>>

\* ------------------------------------------------- a tool that never exits
\* the caller is about to cmd.Run() an executable that is on the path
ToolRunning ==
    \/ pc \in Renderers /\ LookPath(pc)
    \/ pc = "rasterize" /\ \E t \in RootRasterizers : LookPath(t)
    \/ \E t \in DgRasterizers : pc = "dg_" \o t /\ LookPath(t)
    \/ pc \in {"opt_convert", "ci_pass1", "ci_pass2"} /\ LookPath("convert")

\* exec.Command(...).Run() / CombinedOutput() waits for the child without
\* context or timer: when the child never exits the call never returns
ToolHangs ==
    /\ ToolRunning
    /\ pc' = "blocked"
    /\ UNCHANGED <<config, batch, reported, i, fs, err, log, ghosts>>

Next ==
    \/ ToolHangs
    \/ main_saveResults
    \/ StartTarget
    \/ EndBatch
    \/ AfterCapture
    \/ AfterOptimize
    \/ captureWithWkhtmltoimage
    \/ captureWithChrome
    \/ captureWithChromium
    \/ captureWithPageRender
    \/ CapturePDF_download
    \/ CapturePDF_defer
    \/ capturePDFWithPdftoppm
    \/ capturePDFWithImageMagick
    \/ capturePDFWithPdfimages
    \/ CapturePDF_fallback
    \/ optimizeImageSize_enter
    \/ optimizeImageSize_convert
    \/ optimizeImageSize_remove
    \/ optimizeImageSize_rename
    \/ CapturePDF_pdftoppm
    \/ CapturePDF_convert
    \/ CapturePDF_gs
    \/ CapturePDF_noTool
    \/ compressImage_enter
    \/ compressImage_pass1
    \/ compressImage_pass2
    \/ compressImage_remove
    \/ compressImage_rename

Spec == Init /\ [][Next]_vars

\* the capture functions called with a context their caller may cancel
NextCancel == Next \/ Cancel
SpecCancel == Init /\ [][NextCancel]_vars

\* ============================================================ text functions
\* The functions of main that work on the search results are studied on
\* their own: the capture pipeline stands still at its initial state.
Idle ==
    /\ pdfMode = TRUE
    /\ avail = {}
    /\ nResults = 1
    /\ i = 1
    /\ fs = [p \in Paths |-> NoFile]
    /\ err = Nil
    /\ log = <<>>
    /\ http = NoHttp
    /\ category = "none"
    /\ tempCreated = FALSE
    /\ winner = "none"
    /\ opt = NoOpt
    /\ title = NoTitle
    /\ reported = NotReported
    /\ cancelled = FALSE
    /\ batch = [started |-> <<>>, failed |-> 0]
pipeline == <<pdfMode, avail, nResults, i, fs, log, http, category,
              tempCreated, winner, opt, title, reported, cancelled, batch>>

\* ------------------------------------------------------- the matching line
MaxLines == 2        \* lines of a snippet or of a fetched content
\* if len(line) < 5 { continue }
minMatchLen == 5
\* if len(line) > 10 && !strings.HasPrefix(line, "%PDF")
fallbackLen == 10
\* if len(line) > 200 { return line[:200] }
maxLineLen == 200
\* A line is known by its length after TrimSpace, by whether it contains a
\* keyword (case folded) and by whether it starts with "%PDF".
LineLens == {minMatchLen - 1, minMatchLen, fallbackLen + 1, maxLineLen + 1}
LineKinds ==
    {l \in [len : LineLens, kw : BOOLEAN, pdf : BOOLEAN] :
        l.pdf => (l.len = fallbackLen + 1 /\ ~l.kw)}
\* strings.Split(text, "\n"); <<>> is the empty string
Texts == UNION {[1..n -> LineKinds] : n \in 0..MaxLines}

\* the strings extractMatchingLine can return: line idx of the text src cut
\* to len bytes, or the fixed text
EmptyString == [src |-> "", idx |-> 0, len |-> 0]
NoContent == [src |-> "No content extracted", idx |-> 0, len |-> 20]
Cut(src, k, lines) ==
    [src |-> src, idx |-> k,
     len |-> IF lines[k].len > maxLineLen THEN maxLineLen ELSE lines[k].len]
First(S) == CHOOSE k \in S : \A j \in S : k <= j
\* lines the first loop returns at: long enough and containing a keyword
Hits(lines) ==
    {k \in 1..Len(lines) : lines[k].len >= minMatchLen /\ lines[k].kw}
\* lines the fallback loop returns at
Meaningful(lines) ==
    {k \in 1..Len(lines) : lines[k].len > fallbackLen /\ ~lines[k].pdf}
extractMatchingLine(lines, src) ==
    IF Hits(lines) # {} THEN Cut(src, First(Hits(lines)), lines)
    ELSE IF Meaningful(lines) # {} THEN Cut(src, First(Meaningful(lines)), lines)
    ELSE NoContent

InitMatch ==
    /\ Idle
    /\ build = "dorkergoodnew"
    /\ pc = "ml_snippet"
    /\ args \in [snippet : Texts, content : Texts]
    /\ result = EmptyString

\* if results[i].Snippet != "" { MatchingLine = extractMatchingLine(Snippet) }
main_matchSnippet ==
    /\ pc = "ml_snippet"
    /\ result' = IF args.snippet # <<>>
                 THEN extractMatchingLine(args.snippet, "snippet")
                 ELSE result
    /\ pc' = "ml_content"
    /\ UNCHANGED <<build, err, args, pipeline>>

\* if results[i].MatchingLine == "" && results[i].Content != "" { ... }
main_matchContent ==
    /\ pc = "ml_content"
    /\ result' = IF result = EmptyString /\ args.content # <<>>
                 THEN extractMatchingLine(args.content, "content")
                 ELSE result
    /\ pc' = "ml_done"
    /\ UNCHANGED <<build, err, args, pipeline>>

NextMatch == main_matchSnippet \/ main_matchContent
SpecMatch == InitMatch /\ [][NextMatch]_vars

\* ------------------------------------------------------------------ Search
MaxCreds == 2        \* credentials in the configuration
MaxWanted == 12      \* largest -max
\* numToFetch := min(resultsNeeded, 10); startIndex += 10
pageLimit == 10
Min(a, b) == IF a < b THEN a ELSE b
\* mutant: every request asks for a full page
NumToFetch_fullPage(needed) == pageLimit
NumToFetch(needed) == Min(needed, pageLimit)
\* mutant: a credential is never taken to have worked
Yielded_never(rs) == FALSE
\* if len(results) > 0 { return results, nil }
Yielded(rs) == Len(rs) > 0
\* what call.Do() answers: an error, or a page of n items (the service is
\* asked for at most num items; one item too many is allowed for)
PageError == -1
Pages(num) == {PageError} \cup (0..(num + 1))
\* the locals of Search; calls is the record of the requests made:
\* credential, Num, Start, results held before and after the request
NoSearch ==
    [cred |-> 0, start |-> 0, results |-> <<>>, calls |-> <<>>,
     tried |-> <<>>, lastErr |-> Nil, ret |-> "running"]

InitSearch ==
    /\ Idle
    /\ build = "dorkergoodnew"
    /\ pc = "s_enter"
    /\ args \in [nCreds : 0..MaxCreds, maxResults : 0..MaxWanted]
    /\ result = NoSearch

\* for i, cred := range g.config.Google: the next credential, or the end
NextCredential(r) ==
    IF r.cred < args.nCreds
    THEN /\ result' = [r EXCEPT !.cred = @ + 1, !.tried = Append(@, r.cred + 1)]
         /\ pc' = "s_service"
    ELSE /\ result' = r
         /\ pc' = "s_exhausted"

\* if len(g.config.Google) == 0 { return nil, error }
Search_enter ==
    /\ pc = "s_enter"
    /\ IF args.nCreds = 0
       THEN /\ result' = [result EXCEPT
                            !.ret = "no Google API credentials configured"]
            /\ pc' = "s_done"
       ELSE NextCredential(result)
    /\ UNCHANGED <<build, err, args, pipeline>>

\* svc, err := customsearch.NewService(...); on error lastErr = err; continue
Search_newService ==
    /\ pc = "s_service"
    /\ \E sv \in SysOutcomes :
         IF sv = "ok"
         THEN /\ result' = [result EXCEPT !.start = 1]
              /\ pc' = "s_page"
         ELSE NextCredential([result EXCEPT !.lastErr = "service"])
    /\ UNCHANGED <<build, err, args, pipeline>>

\* one turn of the pagination loop, lines 55-103
Search_page ==
    /\ pc = "s_page"
    /\ IF ~(Len(result.results) < args.maxResults)
       THEN pc' = "s_after" /\ UNCHANGED result
       ELSE LET have == Len(result.results)
                num == NumToFetch(args.maxResults - have)
            IN  \E page \in Pages(num) :
                  LET taken == IF page = PageError THEN 0
                               ELSE Min(page, args.maxResults - have)
                      items == [k \in 1..taken |->
                                  [cred |-> result.cred,
                                   index |-> result.start + k - 1]]
                      call == [cred |-> result.cred, num |-> num,
                               start |-> result.start, have |-> have,
                               got |-> taken, page |-> page]
                      r == [result EXCEPT !.calls = Append(@, call)]
                  IN  IF page = PageError
                      THEN /\ result' = [r EXCEPT !.lastErr = "api"]
                           /\ pc' = "s_after"
                      ELSE IF page = 0
                      THEN /\ result' = [r EXCEPT
                                           !.lastErr = "no more results found"]
                           /\ pc' = "s_after"
                      ELSE /\ result' =
                                [r EXCEPT !.results = @ \o items,
                                          !.start = IF page < num
                                                    THEN @ ELSE @ + pageLimit]
                           /\ pc' = IF page < num THEN "s_after" ELSE "s_page"
    /\ UNCHANGED <<build, err, args, pipeline>>

\* after the pagination loop, lines 105-109
Search_afterPages ==
    /\ pc = "s_after"
    /\ IF Yielded(result.results)
       THEN /\ result' = [result EXCEPT !.ret = Nil]
            /\ pc' = "s_done"
       ELSE NextCredential([result EXCEPT !.lastErr = "no results found"])
    /\ UNCHANGED <<build, err, args, pipeline>>

\* after the last credential, lines 112-116
Search_exhausted ==
    /\ pc = "s_exhausted"
    /\ result' = IF result.lastErr # Nil
                 THEN [result EXCEPT !.ret = result.lastErr, !.results = <<>>]
                 ELSE [result EXCEPT !.ret = Nil]
    /\ pc' = "s_done"
    /\ UNCHANGED <<build, err, args, pipeline>>

NextSearch ==
    \/ Search_enter
    \/ Search_newService
    \/ Search_page
    \/ Search_afterPages
    \/ Search_exhausted
SpecSearch == InitSearch /\ [][NextSearch]_vars

\* -------------------------------------------------------- sanitizeFilename
MaxChars == 2        \* characters of a URL after its padding
\* if len(url) > 50 { url = url[:50] }
nameLimit == 50
\* A URL is its scheme, then pad letters "a", then a few characters of
\* which "/" and "?" are outside [a-zA-Z0-9._-].
Schemes == {"https://", "http://"}
Chars == {"a", "/", "?"}
ValidChars == {"a"}
Pads == {0, nameLimit - 1}
Urls == [scheme : Schemes, pad : Pads,
         body : UNION {[1..n -> Chars] : n \in 1..MaxChars}]
\* the file name: the scheme is removed, every character outside the class
\* becomes "_", and the name is cut to nameLimit bytes
sanitizeFilename(u) ==
    LET clean == [k \in 1..Len(u.body) |->
                     IF u.body[k] \in ValidChars THEN u.body[k] ELSE "_"]
        keep == Min(Len(clean), nameLimit - u.pad)
    IN  [pad |-> u.pad, body |-> SubSeq(clean, 1, keep)]

InitNames ==
    /\ Idle
    /\ build \in {"dorkerplus", "dorkergoodnew"}
    /\ pc = "fp_loop"
    /\ args \in UNION {[1..n -> Urls] : n \in 1..MaxTargets}
    /\ result = <<>>

\* filename := sanitizeFilename(result.URL); filePath := Join(dir, filename+".png")
captureScreenshots_filePath ==
    /\ pc = "fp_loop"
    /\ Len(result) < Len(args)
    /\ result' = Append(result, sanitizeFilename(args[Len(result) + 1]))
    /\ UNCHANGED <<build, pc, err, args, pipeline>>

\* the range loop is exhausted
captureScreenshots_return ==
    /\ pc = "fp_loop"
    /\ Len(result) = Len(args)
    /\ pc' = "fp_done"
    /\ UNCHANGED <<build, err, args, result, pipeline>>

NextNames == captureScreenshots_filePath \/ captureScreenshots_return
SpecNames == InitNames /\ [][NextNames]_vars

\* ------------------------------------------------------------- saveResults
MaxRecords == 2      \* search results handed to saveResults
MaxTokens == 2       \* words of a snippet
\* the words of a snippet: the keyword as typed in the query, the keyword
\* in another case, any other word
keyword == "kw"
Tokens == {"word", "kw", "KW"}
\* strings.ToLower / the (?i) flag of the pattern
Lower(t) == IF t = "KW" THEN "kw" ELSE t
greenStart == "ESC[32m"
greenEnd == "ESC[0m"
\* re.ReplaceAllString(result, greenStart+keyword+greenEnd): every match,
\* whatever its case, becomes the keyword as typed between the two codes
RECURSIVE highlightKeywords(_)
highlightKeywords(t) ==
    IF t = <<>> THEN <<>>
    ELSE (IF Lower(Head(t)) = keyword
          THEN <<greenStart, keyword, greenEnd>>
          ELSE <<Head(t)>>) \o highlightKeywords(Tail(t))

Snippets == UNION {[1..n -> Tokens] : n \in 0..MaxTokens}
Results == [url : {"u1", "u2"}, title : {"t1"}, snippet : Snippets,
            line : {"m1"}]
\* the block saveResults writes for one result: "Matching Line" is written
\* by dorkergoodnew only
Record(r) ==
    IF build = "dorkergoodnew"
    THEN [url |-> r.url, title |-> r.title,
          snippet |-> highlightKeywords(r.snippet), line |-> r.line]
    ELSE [url |-> r.url, title |-> r.title,
          snippet |-> highlightKeywords(r.snippet)]

InitSave ==
    /\ Idle
    /\ build \in {"dorkerplus", "dorkergoodnew"}
    /\ pc = "sr_create"
    /\ args \in UNION {[1..n -> Results] : n \in 0..MaxRecords}
    /\ result = <<>>

\* file, err := os.Create(filename); if err != nil { return err }
saveResults_create ==
    /\ pc = "sr_create"
    /\ \E sv \in SysOutcomes :
         IF sv = "ok"
         THEN pc' = "sr_write" /\ UNCHANGED err
         ELSE pc' = "sr_done" /\ err' = "create failed"
    /\ UNCHANGED <<build, args, result, pipeline>>

\* one turn of the range loop: file.WriteString(content)
saveResults_write ==
    /\ pc = "sr_write"
    /\ Len(result) < Len(args)
    /\ \E sv \in SysOutcomes :
         IF sv = "ok"
         THEN /\ result' = Append(result, Record(args[Len(result) + 1]))
              /\ UNCHANGED <<pc, err>>
         ELSE /\ pc' = "sr_done"
              /\ err' = "write failed"
              /\ UNCHANGED result
    /\ UNCHANGED <<build, args, pipeline>>

\* return nil
saveResults_return ==
    /\ pc = "sr_write"
    /\ Len(result) = Len(args)
    /\ pc' = "sr_done"
    /\ UNCHANGED <<build, err, args, result, pipeline>>

NextSave == saveResults_create \/ saveResults_write \/ saveResults_return
SpecSave == InitSave /\ [][NextSave]_vars

\* ================================================================== claims
\* Capture / CapturePDF has returned for target i
Captured == pc = "captured"
\* CapturePDF got as far as its rasterizer chain
ChainEntered == tempCreated /\ err # "failed to save temp PDF"
SaveFailed == err \in {"failed to create file", "failed to encode JPEG"}

\* the loop body is finished with target i: the capture returned an error
\* (continue) or the optimizer returned
Finished == pc = "optimized" \/ (Captured /\ err # Nil)
\* the target hit an error of the local filesystem or of the download
\* (fatal for that target)
FilesystemFatal ==
    \/ SaveFailed
    \/ err \in {"failed to create temp directory", "failed to create temp PDF",
                "failed to save temp PDF"}

\* C1: when the pipeline of dorkerplus has finished with a target, in either
\* mode, a file exists at the target's designated output path (never zero
\* artifacts), also when a tool exited with an error or exited successfully
\* without writing; targets that hit a local filesystem error are set aside.
C1_ExactlyOneArtifact ==
    (build = "dorkerplus" /\ Finished /\ ~FilesystemFatal)
        => Exists(fs[OutPath(i)])

\* C2: when CapturePDF's rasterizer chain ends without a winning tool (every
\* tool unavailable or failed), the PDF placeholder is at the output path
\* and CapturePDF returns nil.
C2_PlaceholderAfterFailedTools ==
    (Captured /\ pdfMode /\ ChainEntered /\ winner = "none" /\ ~SaveFailed)
        => /\ err = Nil
           /\ fs[Artifact(i)].kind = "pdf"

\* C3: CapturePDF returns nil on behalf of a rasterizer only if a non-empty
\* file exists at the output path.
C3_WinnerHasNonEmptyFile ==
    (Captured /\ winner # "none")
        => /\ Exists(fs[Artifact(i)])
           /\ fs[Artifact(i)].size > 0

\* C4: once the temporary PDF has been created, it no longer exists when
\* CapturePDF returns, whatever the exit path.
C4_TempRemovedOnEveryExit ==
    (Captured /\ tempCreated) => ~Exists(fs[TempPDF(i)])

\* C5: Capture executes its strategies in the order wkhtmltoimage,
\* google-chrome, chromium, page render; a strategy runs only if every
\* earlier one was unavailable or failed, an unavailable tool never runs, a
\* failed tool is followed by the next strategy, and nothing runs after the
\* first success.
Priority(name) ==
    CASE name = "wkhtmltoimage" -> 1
      [] name = "google-chrome" -> 2
      [] name = "chromium" -> 3
      [] name = "pageRender" -> 4
C5_StrategyOrder ==
    (build = "dorkerplus" /\ ~pdfMode) =>
        /\ \A k \in 1..Len(log) :
             /\ log[k].name \in Renderers => log[k].name \in avail
             /\ \A j \in 1..(k - 1) :
                  /\ Priority(log[j].name) < Priority(log[k].name)
                  /\ ~log[j].ok
             /\ \A s \in Renderers :
                  Priority(s) < Priority(log[k].name) =>
                      \/ s \notin avail
                      \/ \E j \in 1..(k - 1) : log[j].name = s /\ ~log[j].ok
        /\ Captured =>
             /\ Len(log) > 0
             /\ log[Len(log)].ok \/ log[Len(log)].name = "pageRender"
C5_Witness ==
    /\ Captured
    /\ "wkhtmltoimage" \notin avail
    /\ Len(log) = 2
    /\ log[1] = [name |-> "google-chrome", ok |-> FALSE]
    /\ log[2] = [name |-> "chromium", ok |-> TRUE]

C7_NoOpWithinBudget ==
    (opt.ret # "none" /\ Exists(opt.entry) /\ opt.entry.size <= maxSizeBytes)
        => /\ opt.runs = 0
           /\ ~Exists(fs[Candidate(i, "tmp.jpg")])
           /\ ~Exists(fs[Candidate(i, "tmp2.jpg")])
           /\ fs[Artifact(i)] = opt.entry
           /\ opt.ret = Nil
C7_Witness ==
    /\ opt.ret = Nil
    /\ Exists(opt.entry)
    /\ opt.entry.size = maxSizeBytes
    /\ fs[Artifact(i)] = opt.entry

\* C8: at every step of an optimizer call the file at the artifact path is
\* never larger than it was at the call, and a file that has replaced the
\* original is strictly smaller than the original.
C8_NeverLarger ==
    (opt.ret # "none" /\ Exists(opt.entry))
        => /\ SizeAt(fs[Artifact(i)]) <= opt.entry.size
           /\ (Exists(fs[Artifact(i)]) /\ fs[Artifact(i)] # opt.entry)
                 => fs[Artifact(i)].size < opt.entry.size
C8_Witness ==
    /\ opt.ret = Nil
    /\ opt.entry.size = maxSizeBytes + 1
    /\ fs[Artifact(i)] = File("candidate", maxSizeBytes - 1)

\* C9: when the optimizer returns, a file exists at the artifact path, also
\* when the rename of an accepted candidate fails.
C9_ArtifactSurvives ==
    (opt.ret = Nil /\ Exists(opt.entry)) => Exists(fs[Artifact(i)])

\* C10: whenever convert produces a candidate of at most maxSizeBytes, the
\* optimizer accepts it (goes on to replace the original).
C10_FittingCandidateAccepted ==
    opt.fit => opt.accepted

\* C11: when the artifact is over budget and no convert run produced a
\* candidate within budget, optimizeImageSize returns nil, the artifact is
\* the file it was on entry, and the orchestrator prints that file's size.
C11_MissIsNotAnError ==
    [][(/\ pc = "optimized"
        /\ Exists(opt.entry)
        /\ opt.entry.size > maxSizeBytes
        /\ ~opt.fit)
       => (/\ opt.ret = Nil
           /\ fs[Artifact(i)] = opt.entry
           /\ reported' = opt.entry.size)]_vars
C11_Witness ==
    /\ build = "dorkerplus"
    /\ pc = "loop"
    /\ i >= 1
    /\ reported > maxSizeBytes

\* C12: every size printed as "Screenshot saved" is at most 120 KB.
C12_ReportedWithinBudget ==
    reported # NotReported => reported <= rootMaxSizeKB * 1024

\* C13: the temporary PDF written by CapturePDF never holds more bytes than
\* the byte ceiling, whatever the length of the response body.
C13_DownloadWithinCeiling ==
    \A p \in Paths : fs[p].kind = "download" => fs[p].size <= bodyCeiling

\* C14: no call of an external tool blocks its caller for ever.
C14_NoToolBlocksForever == pc # "blocked"

\* C15: once the context is cancelled no further target is started.
C15_NoStartAfterCancel == [][StartTarget => ~cancelled]_vars

\* C16: the targets are started in input order, each exactly once; a failed
\* capture does not stop the loop, which ends only after the last target;
\* saveResults is then called whatever the captures returned.
C16_EveryTargetOnceInOrder ==
    /\ batch.started = [k \in 1..Len(batch.started) |-> k]
    /\ Len(batch.started) =
         IF pc \in {"loop", "done", "saved", "exit1"} THEN i - 1 ELSE i
    /\ batch.failed <= Len(batch.started)
    /\ pc \in {"done", "saved", "exit1"} => Len(batch.started) = nResults
    /\ pc = "done" => ENABLED main_saveResults
    /\ pc = "saved" => fs[ResultsPath] = File("results", nResults)
C16_Witness ==
    /\ pc = "saved"
    /\ nResults = MaxTargets
    /\ batch.started = [k \in 1..MaxTargets |-> k]
    /\ batch.failed = nResults
    /\ Exists(fs[ResultsPath])

\* C17: whenever the capture chain of dorkerplus has returned, the next
\* step of the orchestrator is the call of the optimizer.
C17_OptimizerAlwaysRuns ==
    [][(pc = "captured" /\ build = "dorkerplus") => pc' = "opt_enter"]_vars

\* C18: after a capture of dorkerplus whose fetch was answered 404 and that returned nil,
\* the output path holds an error artifact carrying "HTTP 404", and the
\* capture created no temporary PDF.
C18_NotFoundArtifact ==
    (/\ build = "dorkerplus"
     /\ pc = "captured"
     /\ http.result = "response"
     /\ http.status = 404
     /\ err = Nil)
    => (/\ fs[OutPath(i)].kind \in {"error", "errortext"}
        /\ fs[OutPath(i)].text = Title("HTTP", 404)
        /\ ~tempCreated)

\* the snippet as it was before highlightKeywords, case folded
Unhighlight(t) ==
    LET plain == SelectSeq(t, LAMBDA x : x \notin {greenStart, greenEnd})
    IN  [k \in 1..Len(plain) |-> Lower(plain[k])]
FoldCase(t) == [k \in 1..Len(t) |-> Lower(t[k])]
\* C19: when saveResults returns nil the file holds one record per result,
\* in input order, each with the URL, the title, the snippet (keywords
\* highlighted) and the matching line of its result.
C19_OneFullRecordPerResult ==
    (pc = "sr_done" /\ err = Nil)
    => /\ Len(result) = Len(args)
       /\ \A k \in 1..Len(args) :
            /\ DOMAIN result[k] = {"url", "title", "snippet", "line"}
            /\ result[k].url = args[k].url
            /\ result[k].title = args[k].title
            /\ Unhighlight(result[k].snippet) = FoldCase(args[k].snippet)
            /\ result[k].line = args[k].line

\* C20: when no line of the snippet contains a keyword and a line of the
\* content does, MatchingLine is the first such line of the content.
C20_ContentTriedAfterSnippet ==
    (/\ pc = "ml_done"
     /\ Hits(args.snippet) = {}
     /\ Hits(args.content) # {})
    => result = Cut("content", First(Hits(args.content)), args.content)

\* C21: compressImage follows Unoptimized -> Candidate(1) -> Candidate(2)
\* -> Accepted/Exhausted: at most two convert runs, none after an accepted
\* candidate, the second only when the first produced no candidate within
\* budget, and on return the image is the accepted candidate or the file
\* found on entry.
C21_CompressFollowsSchedule ==
    build = "dorkergoodnew"
    => /\ opt.runs <= 2
       /\ pc \in {"ci_pass1", "ci_pass2"} => ~opt.accepted
       /\ pc = "ci_pass2" => ~opt.fit
       /\ (pc = "defer" /\ opt.ret = Nil)
            => \/ fs[ImagePath(i)] = opt.entry
               \/ /\ opt.accepted
                  /\ fs[ImagePath(i)].kind = "candidate"

\* the requests Search made under credential c
CallsOf(c) == SelectSeq(result.calls, LAMBDA r : r.cred = c)
\* C22: Search never holds more than maxResults results; the j-th request
\* under a credential asks for min(remaining, 10) items from index
\* 10(j-1)+1; every request but the last under a credential appended at
\* least one result, so a credential's requests are at most maxResults.
C22_PaginationBounded ==
    pc \in {"s_enter", "s_service", "s_page", "s_after", "s_exhausted",
            "s_done"}
    => /\ Len(result.results) <= args.maxResults
       /\ \A c \in 1..MaxCreds :
            LET calls == CallsOf(c)
            IN  /\ Len(calls) <= args.maxResults
                /\ \A j \in 1..Len(calls) :
                     /\ calls[j].start = pageLimit * (j - 1) + 1
                     /\ calls[j].num >= 1
                     /\ calls[j].num =
                          Min(args.maxResults - calls[j].have, pageLimit)
                     /\ j < Len(calls) => calls[j].got >= 1
C22_Witness ==
    /\ pc = "s_done"
    /\ args.maxResults > pageLimit
    /\ Len(result.results) = args.maxResults
    /\ Len(result.calls) = 2
    /\ result.calls[2].start = pageLimit + 1
    /\ result.calls[2].num = args.maxResults - pageLimit

\* C23: the credentials are tried in order; Search returns nil exactly when
\* some credential yielded a result, and then returns the results of the
\* first such credential only, having made no request under a later one;
\* otherwise it returns an error and no result.
C23_FirstWorkingCredential ==
    pc = "s_done"
    => /\ result.tried = [k \in 1..Len(result.tried) |-> k]
       /\ IF \E k \in 1..Len(result.calls) : result.calls[k].got > 0
          THEN /\ result.ret = Nil
               /\ result.results # <<>>
               /\ \A k \in 1..Len(result.results) :
                    result.results[k].cred = result.cred
               /\ \A k \in 1..Len(result.calls) :
                    /\ result.calls[k].cred <= result.cred
                    /\ result.calls[k].cred < result.cred
                         => result.calls[k].got = 0
               /\ Len(result.tried) = result.cred
          ELSE /\ result.ret # Nil
               /\ result.results = <<>>
               /\ Len(result.tried) = args.nCreds
C23_Witness ==
    /\ pc = "s_done"
    /\ result.ret = Nil
    /\ result.cred = 2
    /\ CallsOf(1) # <<>>
    /\ Len(CallsOf(2)) = 2
    /\ result.calls[Len(result.calls)].page = PageError

\* C24: Capture returns an error exactly when saveImage failed in the page
\* render; failed renderers, request and connection errors and statuses
\* other than 200 never make it return an error.
C24_CaptureErrorsOnlyOnSave ==
    (build = "dorkerplus" /\ ~pdfMode /\ Captured)
    => /\ err # Nil => SaveFailed
       /\ err # Nil <=> (/\ log[Len(log)].name = "pageRender"
                         /\ ~log[Len(log)].ok)
       /\ (\A k \in 1..Len(log) : log[k].name \in Renderers => ~log[k].ok)
            \/ (log[Len(log)].name \in Renderers /\ err = Nil)
C24_Witness ==
    /\ build = "dorkerplus"
    /\ ~pdfMode
    /\ Captured
    /\ err = Nil
    /\ Len(log) >= 2
    /\ ~log[1].ok
    /\ log[Len(log)].name = "pageRender"
    /\ http.result = "response"
    /\ http.status = 404

\* the optimizer (optimizeImageSize, compressImage) has returned nil
OptimizerReturned ==
    \/ pc = "optimized" /\ opt.ret = Nil
    \/ build = "dorkergoodnew" /\ pc = "defer" /\ opt.ret = Nil
C26_DistinctUrlsDistinctPaths ==
    pc = "fp_done"
    => \A j, k \in 1..Len(args) :
         args[j] # args[k] => result[j] # result[k]

\* C27: when the optimizer returns, neither <artifact>.tmp.jpg nor
\* <artifact>.tmp2.jpg exists, whether the candidate was accepted, was
\* rejected, or convert exited with an error after starting to write it.
C27_NoCandidateLeftBehind ==
    OptimizerReturned
    => /\ ~Exists(fs[Candidate(i, "tmp.jpg")])
       /\ ~Exists(fs[Candidate(i, "tmp2.jpg")])

====
